---- MODULE Spec2Model ----
(***************************************************************************)
(* Grid search engine of DiscretePlanning: the occupancy grid of           *)
(* grid_planner.py, the generators bfs_gen, dfs_gen, best_first_search_gen,*)
(* dijkstra_gen, astar_gen and jps_gen, and the convenience functions that *)
(* drive them.  A cell is a pair <<row, column>>.  One step of the model   *)
(* is one resumption (next()) of a generator by its consumer.              *)
(***************************************************************************)
EXTENDS Integers, Sequences, FiniteSets, TLC

\* Bound of the model: grids of at most MaxCells cells are enumerated.
MaxCells == 8

\* Bounds of the scenario grids: the number of obstacles scattered beside an
\* optional wall on the 5 x 5 grid, and scattered on the 3 x 5 grid.
MaxExtra == 1
MaxScatter == 3

\* Bound of the grids on which the queries of the grid are interleaved with
\* a search, and on which two searches are interleaved.
MaxQueryCells == 6

\* grid_planner.py: a grid is at least 2 x 2; the cell kinds.
MinDim == 2
FREE == 0
OBSTACLE == 1
START == 2
GOAL == 3

ALGORITHM_CHOICES == {"bfs", "dfs", "best_first", "dijkstra", "astar", "jps"}

\* Python's None, where a cell is expected, and where a path is expected
\* (a path that is not None holds at least the goal, so it is never empty).
NoCell == <<-1, -1>>
NoPath == <<>>

\* rows, cols, start, goal, grid: the Grid object.  runs: the generators
\* with their consumers.  answer: what the last query of the grid returned.
VARIABLES rows, cols, start, goal, grid, runs, answer

vars == <<rows, cols, start, goal, grid, runs, answer>>
gridVars == <<rows, cols, start, goal, grid>>

----------------------------------------------------------------------------
(* Grid                                                                    *)

CellsOf(R, C) == (0 .. R - 1) \X (0 .. C - 1)

Cells == CellsOf(rows, cols)

\* Grid.__init__: every cell FREE, the sampled obstacles OBSTACLE, then the
\* start and the goal marked.
GridArray(R, C, s, g, obstacles) ==
    [cell \in CellsOf(R, C) |->
        IF cell = s THEN START
        ELSE IF cell = g THEN GOAL
        ELSE IF cell \in obstacles THEN OBSTACLE
        ELSE FREE]

_validate_cell(R, C, cell) ==
    0 <= cell[1] /\ cell[1] < R /\ 0 <= cell[2] /\ cell[2] < C

\* Mutant of Dirs4: left and right before up and down.
Dirs4_left_first == << <<0, -1>>, <<0, 1>>, <<-1, 0>>, <<1, 0>> >>

Dirs4 == << <<-1, 0>>, <<1, 0>>, <<0, -1>>, <<0, 1>> >>


Dirs8 == << <<-1, 0>>, <<1, 0>>, <<0, -1>>, <<0, 1>>,
            <<-1, -1>>, <<-1, 1>>, <<1, -1>>, <<1, 1>> >>


\* Mutant of neighbours: the OBSTACLE test left out.
neighbours_through_obstacles(cell) ==
    LET cand == [i \in 1 .. 4 |->
                    <<cell[1] + Dirs4[i][1], cell[2] + Dirs4[i][2]>>]
    IN SelectSeq(cand, LAMBDA n :
            0 <= n[1] /\ n[1] < rows /\ 0 <= n[2] /\ n[2] < cols)

\* Grid.neighbours: the walkable 4-connected neighbours, up, down, left, right.
neighbours(cell) ==
    LET cand == [i \in 1 .. 4 |->
                    <<cell[1] + Dirs4[i][1], cell[2] + Dirs4[i][2]>>]
    IN SelectSeq(cand, LAMBDA n :
            /\ 0 <= n[1] /\ n[1] < rows /\ 0 <= n[2] /\ n[2] < cols
            /\ grid[n] # OBSTACLE)


\* Mutant of neighbours8: a diagonal cell refused only when both cardinal
\* cells beside the move are obstacles (and for or).
neighbours8_cutting(cell) ==
    LET r == cell[1]
        c == cell[2]
        ok(d) ==
            LET nr == r + d[1]
                nc == c + d[2]
            IN /\ 0 <= nr /\ nr < rows /\ 0 <= nc /\ nc < cols
               /\ grid[<<nr, nc>>] # OBSTACLE
               /\ (d[1] # 0 /\ d[2] # 0) =>
                     ~(grid[<<r + d[1], c>>] = OBSTACLE
                        /\ grid[<<r, c + d[2]>>] = OBSTACLE)
        kept == SelectSeq(Dirs8, ok)
    IN [i \in 1 .. Len(kept) |-> <<r + kept[i][1], c + kept[i][2]>>]

\* Grid.neighbours8: a diagonal cell only when both cardinal cells beside the
\* move are no obstacle.
neighbours8(cell) ==
    LET r == cell[1]
        c == cell[2]
        ok(d) ==
            LET nr == r + d[1]
                nc == c + d[2]
            IN /\ 0 <= nr /\ nr < rows /\ 0 <= nc /\ nc < cols
               /\ grid[<<nr, nc>>] # OBSTACLE
               /\ (d[1] # 0 /\ d[2] # 0) =>
                     ~(grid[<<r + d[1], c>>] = OBSTACLE
                        \/ grid[<<r, c + d[2]>>] = OBSTACLE)
        kept == SelectSeq(Dirs8, ok)
    IN [i \in 1 .. Len(kept) |-> <<r + kept[i][1], c + kept[i][2]>>]

is_free(r, c) == grid[<<r, c>>] # OBSTACLE

\* No query made yet.
NoAnswer == [op |-> "none", cell |-> NoCell, cells |-> <<>>, free |-> FALSE]

----------------------------------------------------------------------------
(* Shared pieces of the generators                                         *)

Abs(x) == IF x < 0 THEN -x ELSE x

Max(a, b) == IF a >= b THEN a ELSE b

SeqSet(s) == {s[i] : i \in 1 .. Len(s)}

Reverse(s) == [i \in 1 .. Len(s) |-> s[Len(s) + 1 - i]]

\* d[k] = v on a Python dict.
Put(d, k, v) == [x \in (DOMAIN d) \cup {k} |-> IF x = k THEN v ELSE d[x]]

EmptyDict == [x \in {} |-> NoCell]

\* F applied to the value of e: the bound variable holds the value, which is
\* computed once.
Bind(F(_), e) == CHOOSE y \in {F(x) : x \in {e}} : TRUE

\* for item in items: r = Body(r, item)
RECURSIVE ForEachFrom(_, _, _, _)
ForEachFrom(Body(_, _), r, items, i) ==
    IF i > Len(items) THEN r
    ELSE Bind(LAMBDA x : ForEachFrom(Body, x, items, i + 1),
              Body(r, items[i]))

ForEach(Body(_, _), r, items) ==
    Bind(LAMBDA s : ForEachFrom(Body, r, s, 1), items)

\* SearchState(current, visited, frontier, path)
SearchState(current, visited, frontier, path) ==
    [current |-> current, visited |-> visited, frontier |-> frontier,
     path |-> path]


\* Mutant of KeepPath: the test inverted (is None for is not None).
KeepPath_inverted(result, state) ==
    IF state.path = NoPath THEN state.path ELSE result

\* The body of the convenience functions' loop (bfs, dfs, best_first_search,
\* dijkstra, astar, jps): keep the path of a snapshot that carries one.
KeepPath(result, state) ==
    IF state.path # NoPath THEN state.path ELSE result

\* Set objects are numbered in the order in which a run creates them; objs
\* holds, for every snapshot, which objects its visited and frontier are.
\* A yield: the generator is suspended at position pc and its consumer, the
\* convenience function, has received the snapshot.  Here the visited and the
\* frontier of the snapshot are two sets built in the yield expression.
Yield(r, pc, state) ==
    [r EXCEPT !.pc = pc,
              !.snaps = Append(@, state),
              !.objs = Append(@, [visited |-> r.nobj + 1,
                                  frontier |-> r.nobj + 2]),
              !.nobj = @ + 2,
              !.result = KeepPath(@, state)]

\* frontier_set = set(queue) in bfs_gen and dfs_gen: a new set bound to the
\* local frontier_set.
NewFrontierSet(r) ==
    [r EXCEPT !.frontier_set = r.nobj + 1, !.nobj = @ + 1]

\* A yield of bfs_gen and dfs_gen: visited is a set built in the yield
\* expression, frontier is the object bound to frontier_set.
YieldFrontierSet(r, pc, state) ==
    [r EXCEPT !.pc = pc,
              !.snaps = Append(@, state),
              !.objs = Append(@, [visited |-> r.nobj + 1,
                                  frontier |-> r.frontier_set]),
              !.nobj = @ + 1,
              !.result = KeepPath(@, state)]

\* _reconstruct: walk came_from from the goal back to the start, then reverse.
RECURSIVE WalkBack(_, _)
WalkBack(came_from, node) ==
    IF node = NoCell THEN <<>>
    ELSE <<node>> \o WalkBack(came_from, came_from[node])


\* Mutant of _reconstruct: path.reverse() left out.
_reconstruct_unreversed(came_from, g) == WalkBack(came_from, g)

_reconstruct(came_from, g) == Reverse(WalkBack(came_from, g))

\* A generator that was created and not yet resumed.  entry is the tuple
\* last popped from the heap (_f, _cnt, current).
NewRun(alg) ==
    [alg |-> alg, pc |-> "init", current |-> NoCell, d |-> 0,
     queue |-> <<>>, open_list |-> {}, came_from |-> EmptyDict,
     cost |-> EmptyDict, visited |-> {}, in_open |-> {}, counter |-> 0,
     snaps |-> <<>>, result |-> NoPath,
     nobj |-> 0, own |-> {}, frontier_set |-> 0, objs |-> <<>>,
     entry |-> <<0, 0, NoCell>>]

\* return, or falling off the end of the generator: StopIteration.
Exhaust(r) == [r EXCEPT !.pc = "done"]

----------------------------------------------------------------------------
(* bfs.py                                                                  *)


\* Mutant of bfs_loop: queue.pop() in place of queue.popleft().
bfs_loop_lifo(r) ==
    IF r.queue = <<>>
    THEN Yield(r, "fail", SearchState(NoCell, r.visited, {}, NoPath))
    ELSE LET current == r.queue[Len(r.queue)]
             queue == SubSeq(r.queue, 1, Len(r.queue) - 1)
             visited == r.visited \cup {current}
         IN YieldFrontierSet(
                NewFrontierSet([r EXCEPT !.current = current,
                                         !.queue = queue,
                                         !.visited = visited]),
                "yielded",
                SearchState(current, visited, SeqSet(queue), NoPath))

\* The head of the while loop up to the next yield.
bfs_loop(r) ==
    IF r.queue = <<>>
    THEN Yield(r, "fail", SearchState(NoCell, r.visited, {}, NoPath))
    ELSE LET current == Head(r.queue)
             queue == Tail(r.queue)
             visited == r.visited \cup {current}
         IN YieldFrontierSet(
                NewFrontierSet([r EXCEPT !.current = current,
                                         !.queue = queue,
                                         !.visited = visited]),
                "yielded",
                SearchState(current, visited, SeqSet(queue), NoPath))

\* Mutant of bfs_visit: the test neighbour not in came_from left out, so that
\* an entry is overwritten.
bfs_visit_overwriting(r, neighbour) ==
    [r EXCEPT !.came_from = Put(@, neighbour, r.current),
              !.queue = IF neighbour \in DOMAIN r.came_from THEN @
                        ELSE Append(@, neighbour)]

bfs_visit(r, neighbour) ==
    IF neighbour \notin DOMAIN r.came_from
    THEN [r EXCEPT !.came_from = Put(@, neighbour, r.current),
                      !.queue = Append(@, neighbour)]
    ELSE r


\* Mutant of bfs_gen: the return after the path snapshot left out, so that
\* the goal is expanded and the loop goes on.
bfs_gen_no_return(r) ==
    CASE r.pc = "init" ->
            {bfs_loop([r EXCEPT !.queue = <<start>>,
                                !.came_from = Put(EmptyDict, start, NoCell),
                                !.visited = {},
                                !.own = {1}, !.nobj = 1])}
      [] r.pc = "yielded" /\ r.current = goal ->
            {YieldFrontierSet(r, "goal",
                   SearchState(r.current, r.visited, SeqSet(r.queue),
                               _reconstruct(r.came_from, goal)))}
      [] r.pc = "yielded" /\ r.current # goal ->
            {bfs_loop(x) :
                x \in {ForEach(bfs_visit, r, neighbours(r.current))}}
      [] r.pc = "goal" ->
            {bfs_loop(x) :
                x \in {ForEach(bfs_visit, r, neighbours(r.current))}}
      [] r.pc = "fail" -> {Exhaust(r)}
      [] OTHER -> {}

\* bfs_gen, one resumption: the set of states the generator can be in at its
\* next suspension.
bfs_gen(r) ==
    CASE r.pc = "init" ->
            {bfs_loop([r EXCEPT !.queue = <<start>>,
                                !.came_from = Put(EmptyDict, start, NoCell),
                                !.visited = {},
                                !.own = {1}, !.nobj = 1])}
      [] r.pc = "yielded" /\ r.current = goal ->
            {YieldFrontierSet(r, "goal",
                   SearchState(r.current, r.visited, SeqSet(r.queue),
                               _reconstruct(r.came_from, goal)))}
      [] r.pc = "yielded" /\ r.current # goal ->
            {bfs_loop(x) :
                x \in {ForEach(bfs_visit, r, neighbours(r.current))}}
      [] r.pc \in {"goal", "fail"} -> {Exhaust(r)}
      [] OTHER -> {}

----------------------------------------------------------------------------
(* dfs.py                                                                  *)

dfs_loop(r) ==
    IF r.queue = <<>>
    THEN Yield(r, "fail", SearchState(NoCell, r.visited, {}, NoPath))
    ELSE LET current == r.queue[Len(r.queue)]
             stack == SubSeq(r.queue, 1, Len(r.queue) - 1)
             visited == r.visited \cup {current}
         IN YieldFrontierSet(
                NewFrontierSet([r EXCEPT !.current = current,
                                         !.queue = stack,
                                         !.visited = visited]),
                "yielded",
                SearchState(current, visited, SeqSet(stack), NoPath))


\* Mutant of dfs_visit: the parent recorded for a neighbour is the parent of
\* the current cell, not the current cell.
dfs_visit_grandparent(r, neighbour) ==
    IF neighbour \notin DOMAIN r.came_from
    THEN [r EXCEPT !.came_from = Put(@, neighbour, r.came_from[r.current]),
                      !.queue = Append(@, neighbour)]
    ELSE r

dfs_visit(r, neighbour) ==
    IF neighbour \notin DOMAIN r.came_from
    THEN [r EXCEPT !.came_from = Put(@, neighbour, r.current),
                      !.queue = Append(@, neighbour)]
    ELSE r

dfs_gen(r) ==
    CASE r.pc = "init" ->
            {dfs_loop([r EXCEPT !.queue = <<start>>,
                                !.came_from = Put(EmptyDict, start, NoCell),
                                !.visited = {},
                                !.own = {1}, !.nobj = 1])}
      [] r.pc = "yielded" /\ r.current = goal ->
            {YieldFrontierSet(r, "goal",
                   SearchState(r.current, r.visited, SeqSet(r.queue),
                               _reconstruct(r.came_from, goal)))}
      [] r.pc = "yielded" /\ r.current # goal ->
            {dfs_loop(x) :
                x \in {ForEach(dfs_visit, r, neighbours(r.current))}}
      [] r.pc \in {"goal", "fail"} -> {Exhaust(r)}
      [] OTHER -> {}

----------------------------------------------------------------------------
(* heapq on entries <<priority, counter, cell>>                            *)

\* Python's < on two cells and on two heap entries (tuples compare
\* lexicographically).
CellLess(a, b) == a[1] < b[1] \/ (a[1] = b[1] /\ a[2] < b[2])

EntryLess(a, b) ==
    \/ a[1] < b[1]
    \/ a[1] = b[1] /\ a[2] < b[2]
    \/ a[1] = b[1] /\ a[2] = b[2] /\ CellLess(a[3], b[3])


\* Mutant of heappop: entries without the counter, ties of priority left
\* open.
heappop_any_min_priority(e, heap) ==
    e \in heap /\ \A x \in heap : e[1] <= x[1]

\* heapq.heappop(heap) returns e: e is in the heap and no entry is smaller.
heappop(e, heap) == e \in heap /\ \A x \in heap : ~EntryLess(x, e)

\* heapq.heappush(heap, e)
heappush(heap, e) == heap \cup {e}

\* Manhattan distance (best_first_search.py, astar.py).
\* Mutant of _heuristic: three times the Manhattan distance, which is not
\* admissible.
_heuristic_tripled(a, b) == 3 * (Abs(a[1] - b[1]) + Abs(a[2] - b[2]))

_heuristic(a, b) == Abs(a[1] - b[1]) + Abs(a[2] - b[2])

----------------------------------------------------------------------------
(* best_first_search.py                                                    *)

\* Mutant of best_first_search_loop: in_open.discard(current) left out.
best_first_search_loop_keeping_open(r) ==
    IF r.open_list = {}
    THEN {Yield(r, "fail", SearchState(NoCell, r.visited, {}, NoPath))}
    ELSE {LET current == e[3]
              visited == r.visited \cup {current}
          IN Yield([r EXCEPT !.open_list = @ \ {e}, !.current = current,
                             !.entry = e, !.visited = visited],
                   "yielded",
                   SearchState(current, visited, r.in_open, NoPath))
          : e \in {x \in r.open_list : heappop(x, r.open_list)}}

best_first_search_loop(r) ==
    IF r.open_list = {}
    THEN {Yield(r, "fail", SearchState(NoCell, r.visited, {}, NoPath))}
    ELSE {LET current == e[3]
              in_open == r.in_open \ {current}
              visited == r.visited \cup {current}
          IN Yield([r EXCEPT !.open_list = @ \ {e}, !.current = current,
                             !.entry = e,
                             !.in_open = in_open, !.visited = visited],
                   "yielded",
                   SearchState(current, visited, in_open, NoPath))
          : e \in {x \in r.open_list : heappop(x, r.open_list)}}

\* Mutant of best_first_search_visit: a neighbour farther from the goal than
\* the current cell is recorded but not pushed.
best_first_search_visit_downhill_only(r, neighbour) ==
    IF neighbour \notin DOMAIN r.came_from
    THEN IF _heuristic(neighbour, goal) < _heuristic(r.current, goal)
         THEN [r EXCEPT
                !.came_from = Put(@, neighbour, r.current),
                !.counter = @ + 1,
                !.open_list = heappush(@,
                    <<_heuristic(neighbour, goal), r.counter + 1,
                      neighbour>>),
                !.in_open = @ \cup {neighbour}]
         ELSE [r EXCEPT !.came_from = Put(@, neighbour, r.current)]
    ELSE r

best_first_search_visit(r, neighbour) ==
    IF neighbour \notin DOMAIN r.came_from
    THEN [r EXCEPT
                !.came_from = Put(@, neighbour, r.current),
                !.counter = @ + 1,
                !.open_list = heappush(@,
                    <<_heuristic(neighbour, goal), r.counter + 1,
                      neighbour>>),
                !.in_open = @ \cup {neighbour}]
    ELSE r

best_first_search_gen(r) ==
    CASE r.pc = "init" ->
            best_first_search_loop(
                [r EXCEPT !.counter = 0,
                          !.open_list = heappush({},
                              <<_heuristic(start, goal), 0, start>>),
                          !.came_from = Put(EmptyDict, start, NoCell),
                          !.visited = {},
                          !.in_open = {start},
                          !.own = {1, 2}, !.nobj = 2])
      [] r.pc = "yielded" /\ r.current = goal ->
            {Yield(r, "goal",
                   SearchState(r.current, r.visited, r.in_open,
                               _reconstruct(r.came_from, goal)))}
      [] r.pc = "yielded" /\ r.current # goal ->
            UNION {best_first_search_loop(x) :
                x \in {ForEach(best_first_search_visit, r,
                               neighbours(r.current))}}
      [] r.pc \in {"goal", "fail"} -> {Exhaust(r)}
      [] OTHER -> {}

----------------------------------------------------------------------------
(* dijkstra.py                                                             *)

\* The head of the while loop up to the next yield; an entry whose cell is
\* already closed is dropped (continue) and the loop goes on.
RECURSIVE dijkstra_loop(_)
dijkstra_loop(r) ==
    IF r.open_list = {}
    THEN {Yield(r, "fail", SearchState(NoCell, r.visited, {}, NoPath))}
    ELSE UNION {
          LET current == e[3]
              popped == [r EXCEPT !.open_list = @ \ {e}, !.d = e[1],
                                  !.entry = e, !.current = current]
          IN IF current \in r.visited
             THEN UNION {dijkstra_loop(x) : x \in {popped}}
             ELSE LET closed == r.visited \cup {current}
                      in_open == r.in_open \ {current}
                  IN {Yield([popped EXCEPT !.visited = closed,
                                           !.in_open = in_open],
                            "yielded",
                            SearchState(current, closed, in_open, NoPath))}
          : e \in {x \in r.open_list : heappop(x, r.open_list)}}


\* Mutant of dijkstra_visit: the counter counts down, so that of two entries
\* of one distance the one pushed last is popped first.
dijkstra_visit_counting_down(r, neighbour) ==
    LET new_dist == r.d + 1
     IN IF neighbour \in r.visited
        THEN r
        ELSE IF neighbour \notin DOMAIN r.cost
                \/ new_dist < r.cost[neighbour]
        THEN [r EXCEPT
                    !.cost = Put(@, neighbour, new_dist),
                    !.came_from = Put(@, neighbour, r.current),
                    !.counter = @ - 1,
                    !.open_list = heappush(@,
                        <<new_dist, r.counter - 1, neighbour>>),
                    !.in_open = @ \cup {neighbour}]
        ELSE r

dijkstra_visit(r, neighbour) ==
    LET new_dist == r.d + 1
     IN IF neighbour \in r.visited
        THEN r
        ELSE IF neighbour \notin DOMAIN r.cost
                \/ new_dist < r.cost[neighbour]
        THEN [r EXCEPT
                    !.cost = Put(@, neighbour, new_dist),
                    !.came_from = Put(@, neighbour, r.current),
                    !.counter = @ + 1,
                    !.open_list = heappush(@,
                        <<new_dist, r.counter + 1, neighbour>>),
                    !.in_open = @ \cup {neighbour}]
        ELSE r

\* Mutant of dijkstra_gen: break in place of continue at a closed neighbour,
\* so that the neighbours after it are not looked at.
dijkstra_gen_break_at_closed(r) ==
    CASE r.pc = "init" ->
            dijkstra_loop(
                [r EXCEPT !.cost = Put(EmptyDict, start, 0),
                          !.came_from = Put(EmptyDict, start, NoCell),
                          !.counter = 0,
                          !.open_list = {<<0, 0, start>>},
                          !.visited = {},
                          !.in_open = {start},
                          !.own = {1, 2}, !.nobj = 2])
      [] r.pc = "yielded" /\ r.current = goal ->
            {Yield(r, "goal",
                   SearchState(r.current, r.visited, r.in_open,
                               _reconstruct(r.came_from, goal)))}
      [] r.pc = "yielded" /\ r.current # goal ->
            LET ns == neighbours(r.current)
                closed_at == {k \in 1 .. Len(ns) : ns[k] \in r.visited}
                upto == IF closed_at = {} THEN Len(ns)
                        ELSE (CHOOSE k \in closed_at :
                                 \A l \in closed_at : k <= l) - 1
            IN UNION {dijkstra_loop(x) :
                  x \in {ForEach(dijkstra_visit, r, SubSeq(ns, 1, upto))}}
      [] r.pc \in {"goal", "fail"} -> {Exhaust(r)}
      [] OTHER -> {}

dijkstra_gen(r) ==
    CASE r.pc = "init" ->
            dijkstra_loop(
                [r EXCEPT !.cost = Put(EmptyDict, start, 0),
                          !.came_from = Put(EmptyDict, start, NoCell),
                          !.counter = 0,
                          !.open_list = {<<0, 0, start>>},
                          !.visited = {},
                          !.in_open = {start},
                          !.own = {1, 2}, !.nobj = 2])
      [] r.pc = "yielded" /\ r.current = goal ->
            {Yield(r, "goal",
                   SearchState(r.current, r.visited, r.in_open,
                               _reconstruct(r.came_from, goal)))}
      [] r.pc = "yielded" /\ r.current # goal ->
            UNION {dijkstra_loop(x) :
                x \in {ForEach(dijkstra_visit, r, neighbours(r.current))}}
      [] r.pc \in {"goal", "fail"} -> {Exhaust(r)}
      [] OTHER -> {}

----------------------------------------------------------------------------
(* astar.py                                                                *)


\* Mutant of astar_loop: the test "if current in closed: continue" left out.
astar_loop_without_closed_test(r) ==
    IF r.open_list = {}
    THEN {Yield(r, "fail", SearchState(NoCell, r.visited, {}, NoPath))}
    ELSE {LET current == e[3]
              closed == r.visited \cup {current}
              in_open == r.in_open \ {current}
          IN Yield([r EXCEPT !.open_list = @ \ {e}, !.entry = e,
                             !.current = current, !.visited = closed,
                             !.in_open = in_open],
                   "yielded",
                   SearchState(current, closed, in_open, NoPath))
          : e \in {x \in r.open_list : heappop(x, r.open_list)}}

RECURSIVE astar_loop(_)
astar_loop(r) ==
    IF r.open_list = {}
    THEN {Yield(r, "fail", SearchState(NoCell, r.visited, {}, NoPath))}
    ELSE UNION {
          LET current == e[3]
              popped == [r EXCEPT !.open_list = @ \ {e},
                                  !.entry = e, !.current = current]
          IN IF current \in r.visited
             THEN UNION {astar_loop(x) : x \in {popped}}
             ELSE LET closed == r.visited \cup {current}
                      in_open == r.in_open \ {current}
                  IN {Yield([popped EXCEPT !.visited = closed,
                                           !.in_open = in_open],
                            "yielded",
                            SearchState(current, closed, in_open, NoPath))}
          : e \in {x \in r.open_list : heappop(x, r.open_list)}}


\* Mutant of astar_visit: counter += 1 left out, so that a counter is used
\* again.
astar_visit_counter_reused(r, neighbour) ==
    LET tentative_g == r.cost[r.current] + 1
         f == tentative_g + _heuristic(neighbour, goal)
     IN IF neighbour \in r.visited
        THEN r
        ELSE IF neighbour \notin DOMAIN r.cost
                \/ tentative_g < r.cost[neighbour]
        THEN [r EXCEPT
                    !.cost = Put(@, neighbour, tentative_g),
                    !.came_from = Put(@, neighbour, r.current),
                    !.open_list = heappush(@,
                        <<f, r.counter, neighbour>>),
                    !.in_open = @ \cup {neighbour}]
        ELSE r

astar_visit(r, neighbour) ==
    LET tentative_g == r.cost[r.current] + 1
         f == tentative_g + _heuristic(neighbour, goal)
     IN IF neighbour \in r.visited
        THEN r
        ELSE IF neighbour \notin DOMAIN r.cost
                \/ tentative_g < r.cost[neighbour]
        THEN [r EXCEPT
                    !.cost = Put(@, neighbour, tentative_g),
                    !.came_from = Put(@, neighbour, r.current),
                    !.counter = @ + 1,
                    !.open_list = heappush(@,
                        <<f, r.counter + 1, neighbour>>),
                    !.in_open = @ \cup {neighbour}]
        ELSE r

astar_gen(r) ==
    CASE r.pc = "init" ->
            astar_loop(
                [r EXCEPT !.cost = Put(EmptyDict, start, 0),
                          !.came_from = Put(EmptyDict, start, NoCell),
                          !.counter = 0,
                          !.open_list = {<<_heuristic(start, goal), 0, start>>},
                          !.visited = {},
                          !.in_open = {start},
                          !.own = {1, 2}, !.nobj = 2])
      [] r.pc = "yielded" /\ r.current = goal ->
            {Yield(r, "goal",
                   SearchState(r.current, r.visited, r.in_open,
                               _reconstruct(r.came_from, goal)))}
      [] r.pc = "yielded" /\ r.current # goal ->
            UNION {astar_loop(x) :
                x \in {ForEach(astar_visit, r, neighbours(r.current))}}
      [] r.pc \in {"goal", "fail"} -> {Exhaust(r)}
      [] OTHER -> {}

----------------------------------------------------------------------------
(* jps.py                                                                  *)

\* Chebyshev distance.
jps_heuristic(a, b) == Max(Abs(a[1] - b[1]), Abs(a[2] - b[2]))

_in_bounds(r, c) == 0 <= r /\ r < rows /\ 0 <= c /\ c < cols


\* Mutant of _walkable: the is_free test left out.
_walkable_in_bounds_only(r, c) == _in_bounds(r, c)

_walkable(r, c) == _in_bounds(r, c) /\ grid[<<r, c>>] # OBSTACLE

_sign(x) == IF x > 0 THEN 1 ELSE IF x < 0 THEN -1 ELSE 0

\* Mutant of _octile_dist: a diagonal step costs two.
_octile_dist_manhattan(a, b) == Abs(a[1] - b[1]) + Abs(a[2] - b[2])

_octile_dist(a, b) == Max(Abs(a[1] - b[1]), Abs(a[2] - b[2]))

\* _jump(grid, r, c, dr, dc, goal): the jump point reached from (r, c) in
\* direction (dr, dc), or NoCell for None.
RECURSIVE _jump(_, _, _, _)
_jump(r, c, dr, dc) ==
    LET nr == r + dr
        nc == c + dc
    IN IF ~_walkable(nr, nc) THEN NoCell
       ELSE IF <<nr, nc>> = goal THEN <<nr, nc>>
       ELSE IF dr # 0 /\ dc # 0
       THEN IF ~_walkable(nr - dr, nc) /\ _walkable(nr - dr, nc + dc)
            THEN <<nr, nc>>
            ELSE IF ~_walkable(nr, nc - dc) /\ _walkable(nr + dr, nc - dc)
            THEN <<nr, nc>>
            ELSE IF _jump(nr, nc, dr, 0) # NoCell THEN <<nr, nc>>
            ELSE IF _jump(nr, nc, 0, dc) # NoCell THEN <<nr, nc>>
            ELSE IF ~(_walkable(nr + dr, nc) \/ _walkable(nr, nc + dc))
            THEN NoCell
            ELSE _jump(nr, nc, dr, dc)
       ELSE IF dr # 0
       THEN IF ~_walkable(nr, nc - 1) /\ _walkable(nr + dr, nc - 1)
            THEN <<nr, nc>>
            ELSE IF ~_walkable(nr, nc + 1) /\ _walkable(nr + dr, nc + 1)
            THEN <<nr, nc>>
            ELSE _jump(nr, nc, dr, dc)
       ELSE IF ~_walkable(nr - 1, nc) /\ _walkable(nr - 1, nc + dc)
            THEN <<nr, nc>>
            ELSE IF ~_walkable(nr + 1, nc) /\ _walkable(nr + 1, nc + dc)
            THEN <<nr, nc>>
            ELSE _jump(nr, nc, dr, dc)

\* Mutant of _pruned_directions: the natural directions only, no forced
\* neighbour.
_pruned_directions_natural_only(r, c, dr, dc) ==
    IF dr # 0 /\ dc # 0
    THEN << <<dr, dc>>, <<dr, 0>>, <<0, dc>> >>
    ELSE << <<dr, dc>> >>

_pruned_directions(r, c, dr, dc) ==
    IF dr # 0 /\ dc # 0
    THEN << <<dr, dc>>, <<dr, 0>>, <<0, dc>> >>
         \o (IF ~_walkable(r - dr, c) THEN << <<-dr, dc>> >> ELSE <<>>)
         \o (IF ~_walkable(r, c - dc) THEN << <<dr, -dc>> >> ELSE <<>>)
    ELSE IF dr # 0
    THEN << <<dr, 0>> >>
         \o (IF ~_walkable(r, c - 1) THEN << <<dr, -1>> >> ELSE <<>>)
         \o (IF ~_walkable(r, c + 1) THEN << <<dr, 1>> >> ELSE <<>>)
    ELSE << <<0, dc>> >>
         \o (IF ~_walkable(r - 1, c) THEN << <<-1, dc>> >> ELSE <<>>)
         \o (IF ~_walkable(r + 1, c) THEN << <<1, dc>> >> ELSE <<>>)

_identify_successors(current, came_from) ==
    LET r == current[1]
        c == current[2]
        parent == IF current \in DOMAIN came_from THEN came_from[current]
                  ELSE NoCell
        directions ==
            IF parent # NoCell
            THEN _pruned_directions(r, c, _sign(r - parent[1]),
                                    _sign(c - parent[2]))
            ELSE Dirs8
        jumps == [i \in 1 .. Len(directions) |->
                    _jump(r, c, directions[i][1], directions[i][2])]
    IN SelectSeq(jumps, LAMBDA jp : jp # NoCell)

\* Mutant of the inner while loop of _build_full_path: the rows are walked
\* first, the columns after them.
WalkTo_rows_first(r, c, b) ==
    [k \in 1 .. Abs(b[1] - r) |-> <<r + k * _sign(b[1] - r), c>>]
    \o [k \in 1 .. Abs(b[2] - c) |-> <<b[1], c + k * _sign(b[2] - c)>>]

\* The inner while loop of _build_full_path: the unit steps from (r, c) to b.
RECURSIVE WalkTo(_, _, _)
WalkTo(r, c, b) ==
    IF <<r, c>> = b THEN <<>>
    ELSE LET nr == r + _sign(b[1] - r)
             nc == c + _sign(b[2] - c)
         IN << <<nr, nc>> >> \o WalkTo(nr, nc, b)

RECURSIVE ExpandChain(_, _)
ExpandChain(jp_chain, i) ==
    IF i > Len(jp_chain) THEN <<>>
    ELSE WalkTo(jp_chain[i - 1][1], jp_chain[i - 1][2], jp_chain[i])
         \o ExpandChain(jp_chain, i + 1)


\* Mutant of _build_full_path: the chain of jump points returned as it is.
_build_full_path_unexpanded(came_from, g) == Reverse(WalkBack(came_from, g))

_build_full_path(came_from, g) ==
    LET jp_chain == Reverse(WalkBack(came_from, g))
    IN IF Len(jp_chain) <= 1 THEN jp_chain
       ELSE <<jp_chain[1]>> \o ExpandChain(jp_chain, 2)

RECURSIVE jps_loop(_)
jps_loop(r) ==
    IF r.open_list = {}
    THEN {Yield(r, "fail", SearchState(NoCell, r.visited, {}, NoPath))}
    ELSE UNION {
          LET current == e[3]
              popped == [r EXCEPT !.open_list = @ \ {e},
                                  !.entry = e, !.current = current]
          IN IF current \in r.visited
             THEN UNION {jps_loop(x) : x \in {popped}}
             ELSE LET closed == r.visited \cup {current}
                      in_open == r.in_open \ {current}
                  IN {Yield([popped EXCEPT !.visited = closed,
                                           !.in_open = in_open],
                            "yielded",
                            SearchState(current, closed, in_open, NoPath))}
          : e \in {x \in r.open_list : heappop(x, r.open_list)}}

jps_visit(r, jp) ==
    LET tentative_g == r.cost[r.current] + _octile_dist(r.current, jp)
         f == tentative_g + jps_heuristic(jp, goal)
     IN IF jp \in r.visited
        THEN r
        ELSE IF jp \notin DOMAIN r.cost \/ tentative_g < r.cost[jp]
        THEN [r EXCEPT
                    !.cost = Put(@, jp, tentative_g),
                    !.came_from = Put(@, jp, r.current),
                    !.counter = @ + 1,
                    !.open_list = heappush(@, <<f, r.counter + 1, jp>>),
                    !.in_open = @ \cup {jp}]
        ELSE r

jps_gen(r) ==
    CASE r.pc = "init" ->
            jps_loop(
                [r EXCEPT !.cost = Put(EmptyDict, start, 0),
                          !.came_from = Put(EmptyDict, start, NoCell),
                          !.counter = 0,
                          !.open_list =
                              {<<jps_heuristic(start, goal), 0, start>>},
                          !.visited = {},
                          !.in_open = {start},
                          !.own = {1, 2}, !.nobj = 2])
      [] r.pc = "yielded" /\ r.current = goal ->
            {Yield(r, "goal",
                   SearchState(r.current, r.visited, r.in_open,
                               _build_full_path(r.came_from, goal)))}
      [] r.pc = "yielded" /\ r.current # goal ->
            UNION {jps_loop(x) :
                x \in {ForEach(jps_visit, r,
                        _identify_successors(r.current, r.came_from))}}
      [] r.pc \in {"goal", "fail"} -> {Exhaust(r)}
      [] OTHER -> {}

----------------------------------------------------------------------------
(* Dispatch and the state machine                                          *)


\* Mutant of _get_algorithm_gen: the greedy search looked up under the name
\* of its module, so that "best_first" is an unknown algorithm.
_get_algorithm_gen_misnamed(r) ==
    CASE r.alg = "bfs" -> bfs_gen(r)
      [] r.alg = "dfs" -> dfs_gen(r)
      [] r.alg = "best_first_search" -> best_first_search_gen(r)
      [] r.alg = "dijkstra" -> dijkstra_gen(r)
      [] r.alg = "astar" -> astar_gen(r)
      [] r.alg = "jps" -> jps_gen(r)
      [] OTHER -> {}

\* _get_algorithm_gen
_get_algorithm_gen(r) ==
    CASE r.alg = "bfs" -> bfs_gen(r)
      [] r.alg = "dfs" -> dfs_gen(r)
      [] r.alg = "best_first" -> best_first_search_gen(r)
      [] r.alg = "dijkstra" -> dijkstra_gen(r)
      [] r.alg = "astar" -> astar_gen(r)
      [] r.alg = "jps" -> jps_gen(r)
      [] OTHER -> {}

\* Grid(rows, cols, start, goal, obstacle_pct, seed): any grid of at least
\* 2 x 2 cells, start and goal in bounds and different, any set of obstacles
\* among the other cells.
GridInit ==
    /\ rows \in MinDim .. MaxCells
    /\ cols \in MinDim .. MaxCells
    /\ rows * cols <= MaxCells
    /\ start \in CellsOf(rows, cols)
    /\ goal \in CellsOf(rows, cols)
    /\ _validate_cell(rows, cols, start)
    /\ _validate_cell(rows, cols, goal)
    /\ start # goal
    /\ \E obstacles \in SUBSET (CellsOf(rows, cols) \ {start, goal}) :
          grid = GridArray(rows, cols, start, goal, obstacles)

Init ==
    /\ GridInit
    /\ \E alg \in ALGORITHM_CHOICES : runs = <<NewRun(alg)>>
    /\ answer = NoAnswer


\* Mutant of Resume: the closed set is one module-level set that all the
\* generators use.
Resume_shared_closed(i) ==
    /\ \E r2 \in _get_algorithm_gen(runs[i]) :
          runs' = [j \in DOMAIN runs |->
                      IF j = i THEN r2
                      ELSE [runs[j] EXCEPT !.visited = r2.visited]]
    /\ UNCHANGED <<gridVars, answer>>

\* Mutant of Resume: the cell just expanded is marked in the grid array.
Resume_marking(i) ==
    /\ \E r2 \in _get_algorithm_gen(runs[i]) :
          /\ runs' = [runs EXCEPT ![i] = r2]
          /\ grid' = [c \in DOMAIN grid |->
                        IF c = r2.current /\ c # start /\ c # goal
                        THEN OBSTACLE ELSE grid[c]]
    /\ UNCHANGED <<rows, cols, start, goal, answer>>

\* One next() on generator i: the generator reads the grid and changes its
\* own locals only.
Resume(i) ==
    /\ \E r2 \in _get_algorithm_gen(runs[i]) :
          runs' = [runs EXCEPT ![i] = r2]
    /\ UNCHANGED <<gridVars, answer>>

\* The first next(): the generator's set-up and its first expansion.
Start == \E i \in DOMAIN runs : runs[i].pc = "init" /\ Resume(i)

\* next() after an expansion snapshot of a cell that is not the goal.
Expand ==
    \E i \in DOMAIN runs :
        /\ runs[i].pc = "yielded" /\ runs[i].current # goal
        /\ Resume(i)

\* next() after the expansion snapshot of the goal: the path snapshot.
YieldPath ==
    \E i \in DOMAIN runs :
        /\ runs[i].pc = "yielded" /\ runs[i].current = goal
        /\ Resume(i)

\* next() after the terminal snapshot: the generator is exhausted.
Finish ==
    \E i \in DOMAIN runs : runs[i].pc \in {"goal", "fail"} /\ Resume(i)

Next == Start \/ Expand \/ YieldPath \/ Finish

Spec == Init /\ [][Next]_vars

\* The consumer resumes every live generator until it is exhausted.
FairSpec == Spec /\ WF_vars(Next)

\* Two runs of one algorithm on one grid, resumed together.
DetInit ==
    /\ GridInit
    /\ \E alg \in ALGORITHM_CHOICES : runs = <<NewRun(alg), NewRun(alg)>>
    /\ answer = NoAnswer

ResumeBoth ==
    /\ \E a \in _get_algorithm_gen(runs[1]) :
          \E b \in _get_algorithm_gen(runs[2]) : runs' = <<a, b>>
    /\ UNCHANGED <<gridVars, answer>>

DetSpec == DetInit /\ [][ResumeBoth]_vars

\* ALGORITHM_CHOICES in the order of the list.
AlgorithmList == <<"bfs", "dfs", "best_first", "dijkstra", "astar", "jps">>

\* Two generators, of the same or of different algorithms, over one grid;
\* their consumer resumes either of them in any order and may stop resuming
\* one at any point.  Which of the two is called the first does not matter,
\* so the first is the one whose algorithm comes first in the list.
PairInit ==
    /\ GridInit
    /\ rows * cols <= MaxQueryCells
    /\ \E a \in 1 .. Len(AlgorithmList) : \E b \in a .. Len(AlgorithmList) :
          runs = <<NewRun(AlgorithmList[a]), NewRun(AlgorithmList[b])>>
    /\ answer = NoAnswer

PairSpec == PairInit /\ [][Next]_vars

\* The subsets of S of at most k cells.
RECURSIVE SubsetsUpTo(_, _)
SubsetsUpTo(S, k) ==
    IF k = 0 THEN {{}}
    ELSE LET smaller == SubsetsUpTo(S, k - 1)
         IN smaller \cup {T \cup {x} : T \in smaller, x \in S}

\* Grids larger than MaxCells cells: the 5 x 5 grid from corner to corner,
\* empty or with one whole row of obstacles between the start and the goal,
\* and a 3 x 5 and a 4 x 3 grid, each with a few scattered obstacles.
Scenarios ==
    {[rows |-> 5, cols |-> 5, start |-> <<0, 0>>, goal |-> <<4, 4>>,
      walls |-> {{}} \cup {{<<k, c>> : c \in 0 .. 4} : k \in 1 .. 3},
      scatter |-> MaxExtra],
     [rows |-> 3, cols |-> 5, start |-> <<0, 1>>, goal |-> <<2, 4>>,
      walls |-> {{}}, scatter |-> MaxScatter],
     [rows |-> 4, cols |-> 3, start |-> <<0, 0>>, goal |-> <<3, 2>>,
      walls |-> {{}}, scatter |-> MaxScatter]}

ScenarioInit ==
    \E sc \in Scenarios :
        /\ rows = sc.rows
        /\ cols = sc.cols
        /\ start = sc.start
        /\ goal = sc.goal
        /\ _validate_cell(rows, cols, start)
        /\ _validate_cell(rows, cols, goal)
        /\ start # goal
        /\ \E wall \in sc.walls :
              \E scattered \in
                    SubsetsUpTo(CellsOf(rows, cols) \ {start, goal},
                                sc.scatter) :
                 grid = GridArray(rows, cols, start, goal,
                                  wall \cup scattered)
        /\ \E alg \in ALGORITHM_CHOICES : runs = <<NewRun(alg)>>
        /\ answer = NoAnswer

ScenarioSpec == ScenarioInit /\ [][Next]_vars

\* The queries of the grid, made by a caller before, during or after a
\* search: grid.neighbours(cell), grid.neighbours8(cell), grid.is_free(r, c).
\* The caller makes a first query at any point and repeats it at any later
\* point.
Asks(op, cell) ==
    answer = NoAnswer \/ (answer.op = op /\ answer.cell = cell)

QueryNeighbours ==
    /\ \E cell \in Cells :
          /\ Asks("neighbours", cell)
          /\ answer' = [op |-> "neighbours", cell |-> cell,
                        cells |-> neighbours(cell), free |-> FALSE]
    /\ UNCHANGED <<gridVars, runs>>

QueryNeighbours8 ==
    /\ \E cell \in Cells :
          /\ Asks("neighbours8", cell)
          /\ answer' = [op |-> "neighbours8", cell |-> cell,
                        cells |-> neighbours8(cell), free |-> FALSE]
    /\ UNCHANGED <<gridVars, runs>>

QueryIsFree ==
    /\ \E cell \in Cells :
          /\ Asks("is_free", cell)
          /\ answer' = [op |-> "is_free", cell |-> cell, cells |-> <<>>,
                        free |-> is_free(cell[1], cell[2])]
    /\ UNCHANGED <<gridVars, runs>>

QueryInit ==
    /\ GridInit
    /\ rows * cols <= MaxQueryCells
    /\ \E alg \in ALGORITHM_CHOICES : runs = <<NewRun(alg)>>
    /\ answer = NoAnswer

QueryNext ==
    \/ Start \/ Expand \/ YieldPath \/ Finish
    \/ QueryNeighbours \/ QueryNeighbours8 \/ QueryIsFree

QuerySpec == QueryInit /\ [][QueryNext]_vars

----------------------------------------------------------------------------
(* Reference notions the properties are stated against                     *)

Free(cell) == cell \in Cells /\ grid[cell] # OBSTACLE

\* One orthogonal unit step.
Step4(a, b) == Abs(a[1] - b[1]) + Abs(a[2] - b[2]) = 1

Adj4(a) ==
    {b \in {<<a[1] - 1, a[2]>>, <<a[1] + 1, a[2]>>,
            <<a[1], a[2] - 1>>, <<a[1], a[2] + 1>>} : Free(b) /\ Step4(a, b)}

Adj8(a) == SeqSet(neighbours8(a))

Unreachable == 0 - 1

\* Breadth-first layers from the start: the number of steps of a shortest
\* route to the goal, or Unreachable.
RECURSIVE Layers4(_, _, _)
Layers4(front, seen, k) ==
    IF goal \in front THEN k
    ELSE Bind(LAMBDA nxt : IF nxt = {} THEN Unreachable
                            ELSE Layers4(nxt, seen \cup nxt, k + 1),
              UNION {Adj4(a) : a \in front} \ seen)

ShortestLen4 == Layers4({start}, {start}, 0)

RECURSIVE Layers8(_, _, _)
Layers8(front, seen, k) ==
    IF goal \in front THEN k
    ELSE Bind(LAMBDA nxt : IF nxt = {} THEN Unreachable
                            ELSE Layers8(nxt, seen \cup nxt, k + 1),
              UNION {Adj8(a) : a \in front} \ seen)

ShortestLen8 == Layers8({start}, {start}, 0)

Last(s) == s[Len(s)]

IsFailureSnapshot(st) == st.current = NoCell /\ st.path = NoPath

----------------------------------------------------------------------------
(* Properties                                                              *)

ValidPath4(p) ==
    /\ p[1] = start
    /\ Last(p) = goal
    /\ \A k \in 1 .. Len(p) : p[k] \in Cells /\ grid[p[k]] # OBSTACLE
    /\ \A k \in 1 .. Len(p) - 1 :
          Step4(p[k], p[k + 1]) /\ p[k + 1] \in SeqSet(neighbours(p[k]))

\* C1: a path returned by bfs, dfs, best_first_search, dijkstra or astar
\* starts at the start, ends at the goal, stays on in-bounds cells that are
\* no obstacle, and moves by one orthogonal step (a Grid.neighbours move)
\* between consecutive cells.
C1_PathValid4 ==
    \A i \in DOMAIN runs :
        (runs[i].alg # "jps" /\ runs[i].result # NoPath)
            => ValidPath4(runs[i].result)

C1_Witness ==
    \E i \in DOMAIN runs :
        /\ runs[i].alg # "jps" /\ runs[i].pc = "done"
        /\ Len(runs[i].result) >= 5
        /\ \E c \in Cells : grid[c] = OBSTACLE

\* C2: a path returned by jps starts at the start, ends at the goal, and
\* every consecutive pair is a Grid.neighbours8 move (no corner-cutting).
C2_JpsPathValid8 ==
    \A i \in DOMAIN runs :
        (runs[i].alg = "jps" /\ runs[i].result # NoPath) =>
            LET p == runs[i].result
            IN /\ p[1] = start
               /\ Last(p) = goal
               /\ \A k \in 1 .. Len(p) - 1 : p[k + 1] \in Adj8(p[k])

\* C3: bfs, dijkstra and astar return None exactly when the goal cannot be
\* reached by orthogonal steps over free cells, and otherwise a path whose
\* number of cells is the shortest 4-connected distance plus one (so the
\* three agree on every grid).
C3_Optimal4 ==
    \A i \in DOMAIN runs :
        (runs[i].alg \in {"bfs", "dijkstra", "astar"} /\ runs[i].pc = "done")
            => IF ShortestLen4 = Unreachable
               THEN runs[i].result = NoPath
               ELSE Len(runs[i].result) = ShortestLen4 + 1

C3_Witness ==
    \E i \in DOMAIN runs :
        /\ runs[i].alg = "astar" /\ runs[i].pc = "done"
        /\ Len(runs[i].result) = ShortestLen4 + 1
        /\ ShortestLen4 > _heuristic(start, goal)

\* C4: the number of unit steps of the path jps returns is the shortest
\* distance over the Grid.neighbours8 adjacency, and jps returns None exactly
\* when the goal cannot be reached over that adjacency.
C4_JpsMatchesReference8 ==
    \A i \in DOMAIN runs :
        (runs[i].alg = "jps" /\ runs[i].pc = "done")
            => IF ShortestLen8 = Unreachable
               THEN runs[i].result = NoPath
               ELSE Len(runs[i].result) - 1 = ShortestLen8

\* C5: when the goal cannot be reached by orthogonal steps over free cells,
\* a run of bfs, dfs, best_first_search, dijkstra or astar never yields a
\* path, can be resumed until it is exhausted, ends with the failure snapshot
\* (current = None, path = None) and the convenience function returns None.
C5_NoPath4 ==
    \A i \in DOMAIN runs :
        (runs[i].alg # "jps" /\ ShortestLen4 = Unreachable) =>
            /\ runs[i].result = NoPath
            /\ \A k \in 1 .. Len(runs[i].snaps) :
                  runs[i].snaps[k].path = NoPath
            /\ runs[i].pc # "done" => _get_algorithm_gen(runs[i]) # {}
            /\ Len(runs[i].snaps) <= Cardinality(Cells) + 1
            /\ runs[i].pc = "done" =>
                  /\ runs[i].snaps # <<>>
                  /\ IsFailureSnapshot(Last(runs[i].snaps))

C5_Witness ==
    \E i \in DOMAIN runs :
        /\ runs[i].alg # "jps" /\ ShortestLen4 = Unreachable
        /\ runs[i].pc = "done"
        /\ Len(runs[i].snaps) >= 4
        /\ IsFailureSnapshot(Last(runs[i].snaps))

\* C6: when the goal cannot be reached by Grid.neighbours8 moves, a run of
\* jps ends with the failure snapshot and jps returns None.
C6_JpsNoPath8 ==
    \A i \in DOMAIN runs :
        (runs[i].alg = "jps" /\ runs[i].pc = "done"
            /\ ShortestLen8 = Unreachable) =>
            /\ runs[i].result = NoPath
            /\ IsFailureSnapshot(Last(runs[i].snaps))

\* A snapshot that ends a snapshot sequence s at position k.
IsPathTerminal(s, k) ==
    /\ s[k].path # NoPath
    /\ s[k].current = goal
    /\ k >= 2
    /\ s[k - 1].current = s[k].current
    /\ s[k - 1].visited = s[k].visited
    /\ s[k - 1].frontier = s[k].frontier

IsFailureTerminal(s, k) ==
    /\ s[k].current = NoCell
    /\ s[k].path = NoPath
    /\ s[k].frontier = {}

IsExpansion(s, k) == s[k].path = NoPath /\ s[k].current # NoCell

\* C7: of the snapshots of a run only the last can be terminal: every
\* earlier one has no path and a current cell; once the run is at its
\* terminal yield or exhausted the last one is the path snapshot (current =
\* goal, and current, visited and frontier as in the snapshot before it) or
\* the failure snapshot (current = None, path = None, frontier empty); an
\* exhausted generator yields nothing more.
C7_OneTerminalLast ==
    \A i \in DOMAIN runs :
        LET s == runs[i].snaps
        IN /\ \A k \in 1 .. Len(s) - 1 : IsExpansion(s, k)
           /\ runs[i].pc = "yielded" => s # <<>> /\ IsExpansion(s, Len(s))
           /\ runs[i].pc \in {"goal", "fail", "done"} =>
                 /\ s # <<>>
                 /\ IsPathTerminal(s, Len(s)) \/ IsFailureTerminal(s, Len(s))
           /\ runs[i].pc = "goal" => IsPathTerminal(s, Len(s))
           /\ runs[i].pc = "fail" => IsFailureTerminal(s, Len(s))
           /\ runs[i].pc = "done" => _get_algorithm_gen(runs[i]) = {}

C7_Witness ==
    /\ \E i \in DOMAIN runs :
          /\ runs[i].pc = "done" /\ runs[i].alg = "jps"
          /\ Len(runs[i].snaps) >= 4
          /\ IsPathTerminal(runs[i].snaps, Len(runs[i].snaps))

\* C8: every run reaches exhaustion: each of the six generators is
\* eventually exhausted when its consumer keeps resuming it.
C8_Terminates == <>(\A i \in DOMAIN runs : runs[i].pc = "done")

C8_Witness ==
    \E i \in DOMAIN runs :
        /\ runs[i].pc = "done" /\ runs[i].alg = "jps"
        /\ Len(runs[i].snaps) >= 4
        /\ Len(runs[i].result) > Cardinality(DOMAIN runs[i].came_from)

RECURSIVE LastPathOf(_, _)
LastPathOf(s, k) ==
    IF k = 0 THEN NoPath
    ELSE IF s[k].path # NoPath THEN s[k].path
    ELSE LastPathOf(s, k - 1)

\* C9: the convenience function returns the path of the last snapshot that
\* carries one, and None exactly when no snapshot of the run carries a path.
C9_ReturnsLastPath ==
    \A i \in DOMAIN runs :
        /\ runs[i].result = LastPathOf(runs[i].snaps, Len(runs[i].snaps))
        /\ runs[i].result = NoPath <=>
              \A k \in 1 .. Len(runs[i].snaps) :
                  runs[i].snaps[k].path = NoPath

C9_Witness ==
    \E i \in DOMAIN runs :
        /\ runs[i].pc = "done"
        /\ runs[i].result # NoPath
        /\ runs[i].result = Last(runs[i].snaps).path
        /\ Len(runs[i].snaps) >= 3

C11_NeverShorter ==
    \A i \in DOMAIN runs :
        (runs[i].alg \in {"dfs", "best_first"} /\ runs[i].result # NoPath)
            => /\ ShortestLen4 # Unreachable
               /\ Len(runs[i].result) >= ShortestLen4 + 1

C11_Witness ==
    \E i \in DOMAIN runs :
        /\ runs[i].alg = "dfs" /\ runs[i].pc = "done"
        /\ ShortestLen4 # Unreachable
        /\ Len(runs[i].result) > ShortestLen4 + 1

\* The 5 x 5 grid without obstacles, from (0,0) to (4,4).
EmptyFiveByFive ==
    /\ rows = 5 /\ cols = 5 /\ start = <<0, 0>> /\ goal = <<4, 4>>
    /\ \A c \in Cells : grid[c] # OBSTACLE

\* C12: on the 5 x 5 grid without obstacles, from (0,0) to (4,4), bfs,
\* dijkstra and astar return a path of exactly 9 cells and jps returns
\* exactly the diagonal (0,0), (1,1), (2,2), (3,3), (4,4).
C12_FiveByFive ==
    \A i \in DOMAIN runs :
        (EmptyFiveByFive /\ runs[i].pc = "done") =>
            /\ runs[i].alg \in {"bfs", "dijkstra", "astar"} =>
                  Len(runs[i].result) = 9
            /\ runs[i].alg = "jps" =>
                  runs[i].result =
                     << <<0, 0>>, <<1, 1>>, <<2, 2>>, <<3, 3>>, <<4, 4>> >>

C12_Witness ==
    \E i \in DOMAIN runs :
        /\ EmptyFiveByFive /\ runs[i].pc = "done" /\ runs[i].alg = "jps"
        /\ Len(runs[i].result) = 5
        /\ Cardinality(DOMAIN runs[i].came_from) < 5

\* A whole row of obstacles strictly between the start's and the goal's row.
WallBetween ==
    \E k \in 0 .. rows - 1 :
        /\ \/ start[1] < k /\ k < goal[1]
           \/ goal[1] < k /\ k < start[1]
        /\ \A c \in 0 .. cols - 1 : grid[<<k, c>>] = OBSTACLE

\* C13: on a grid with a whole row of obstacles strictly between the start's
\* row and the goal's row, each of the six algorithms, jps included, never
\* yields a path, can be resumed until it is exhausted, ends with the failure
\* snapshot and returns None.
C13_WallNoPath ==
    \A i \in DOMAIN runs :
        WallBetween =>
            /\ runs[i].result = NoPath
            /\ \A k \in 1 .. Len(runs[i].snaps) :
                  runs[i].snaps[k].path = NoPath
            /\ runs[i].pc # "done" => _get_algorithm_gen(runs[i]) # {}
            /\ Len(runs[i].snaps) <= Cardinality(Cells) + 1
            /\ runs[i].pc = "done" =>
                  /\ runs[i].snaps # <<>>
                  /\ IsFailureSnapshot(Last(runs[i].snaps))

C13_Witness ==
    \E i \in DOMAIN runs :
        /\ WallBetween /\ runs[i].alg = "jps" /\ runs[i].pc = "done"
        /\ Len(runs[i].snaps) >= 4
        /\ runs[i].result = NoPath
        /\ \E c \in Cells : c[1] = 1 /\ c[2] = 1 /\ c \in runs[i].visited

\* up = 1, down = 2, left = 3, right = 4: the place of n among the
\* orthogonal neighbours of cell.
Rank4(cell, n) ==
    IF n[1] < cell[1] THEN 1
    ELSE IF n[1] > cell[1] THEN 2
    ELSE IF n[2] < cell[2] THEN 3
    ELSE 4

\* C14: Grid.neighbours(cell) returns exactly the cells one orthogonal step
\* away that are in bounds and no obstacle (start and goal count as
\* walkable), each once, in the order up, down, left, right.
C14_Neighbours4Exact ==
    answer.op = "neighbours" =>
        LET a == answer.cell
            ns == answer.cells
        IN /\ SeqSet(ns) =
                 {b \in Cells : grid[b] # OBSTACLE /\ Step4(a, b)}
           /\ \A i \in 1 .. Len(ns) : \A j \in 1 .. Len(ns) :
                 i < j => Rank4(a, ns[i]) < Rank4(a, ns[j])

C14_Witness ==
    /\ answer.op = "neighbours"
    /\ Len(answer.cells) = 2
    /\ goal \in SeqSet(answer.cells)
    /\ Rank4(answer.cell, answer.cells[1]) = 2
    /\ Rank4(answer.cell, answer.cells[2]) = 4
    /\ \E b \in Cells : Step4(answer.cell, b) /\ grid[b] = OBSTACLE
    /\ \E i \in DOMAIN runs : runs[i].pc = "yielded"

\* b is one of the 8 cells around a.
Around(a, b) == Max(Abs(a[1] - b[1]), Abs(a[2] - b[2])) = 1

Diagonal(a, b) == a[1] # b[1] /\ a[2] # b[2]

\* C15: Grid.neighbours8(cell) returns exactly the in-bounds cells around
\* the cell that are no obstacle and, when diagonal, have no obstacle on
\* either of the two orthogonal cells beside the move; each cell once.
C15_Neighbours8Exact ==
    answer.op = "neighbours8" =>
        LET a == answer.cell
            ns == answer.cells
        IN /\ SeqSet(ns) =
                 {b \in Cells :
                     /\ Around(a, b)
                     /\ grid[b] # OBSTACLE
                     /\ Diagonal(a, b) =>
                           /\ grid[<<b[1], a[2]>>] # OBSTACLE
                           /\ grid[<<a[1], b[2]>>] # OBSTACLE}
           /\ Cardinality(SeqSet(ns)) = Len(ns)

C15_Witness ==
    /\ answer.op = "neighbours8"
    /\ \E b \in Cells :
          /\ Around(answer.cell, b) /\ Diagonal(answer.cell, b)
          /\ grid[b] # OBSTACLE
          /\ grid[<<b[1], answer.cell[2]>>] = OBSTACLE
          /\ grid[<<answer.cell[1], b[2]>>] # OBSTACLE
          /\ b \notin SeqSet(answer.cells)
    /\ \E b \in SeqSet(answer.cells) : Diagonal(answer.cell, b)

\* What the query recorded in answer returns when it is made now.
Repeated ==
    CASE answer.op = "neighbours" ->
            [answer EXCEPT !.cells = neighbours(answer.cell)]
      [] answer.op = "neighbours8" ->
            [answer EXCEPT !.cells = neighbours8(answer.cell)]
      [] answer.op = "is_free" ->
            [answer EXCEPT
                !.free = is_free(answer.cell[1], answer.cell[2])]
      [] OTHER -> answer

\* C16: no query and no step of a generator changes the grid array, its
\* dimensions, the start or the goal; a query repeated at any later point,
\* before, during or after a search, returns what the first call returned.
C16_GridUnchanged ==
    /\ [](Repeated = answer)
    /\ [][/\ gridVars' = gridVars
           /\ answer # NoAnswer => answer' = answer]_vars

C16_Witness ==
    /\ answer.op = "neighbours8"
    /\ Len(answer.cells) >= 2
    /\ \E c \in Cells : grid[c] = OBSTACLE
    /\ \E i \in DOMAIN runs :
          /\ runs[i].pc = "done"
          /\ Len(runs[i].snaps) >= 4
          /\ answer.cell \in runs[i].visited

\* The set objects held by snapshot k of a run.
ObjectsOf(r, k) == {r.objs[k].visited, r.objs[k].frontier}

\* C17: every snapshot is an independent copy: the visited and the frontier
\* of a snapshot are two objects, no object is held by two snapshots of a
\* run, and none is one of the run's own bookkeeping sets.
C17_SnapshotsIndependent ==
    \A i \in DOMAIN runs :
        LET r == runs[i]
        IN /\ \A k \in 1 .. Len(r.objs) :
                 /\ r.objs[k].visited # r.objs[k].frontier
                 /\ ObjectsOf(r, k) \cap r.own = {}
           /\ \A k \in 1 .. Len(r.objs) : \A l \in 1 .. Len(r.objs) :
                 k < l => ObjectsOf(r, k) \cap ObjectsOf(r, l) = {}

\* A generator of algorithm alg on the grid, alone, after n resumptions.
RECURSIVE SoloAfter(_, _)
SoloAfter(alg, n) ==
    IF n = 0 THEN NewRun(alg)
    ELSE Bind(LAMBDA r : CHOOSE x \in _get_algorithm_gen(r) : TRUE,
              SoloAfter(alg, n - 1))

\* The number of times a generator has been resumed.
Resumptions(r) == Len(r.snaps) + (IF r.pc = "done" THEN 1 ELSE 0)

\* C18: generators over one grid, resumed in any interleaving and abandoned
\* at any point, do not affect each other: each has emitted exactly the
\* snapshots, and holds exactly the locals (open, closed, cost, came_from,
\* counter), of a generator of its algorithm resumed alone as many times.
C18_RunsIndependent ==
    \A i \in DOMAIN runs :
        runs[i] = SoloAfter(runs[i].alg, Resumptions(runs[i]))

C18_Witness ==
    /\ Len(runs) = 2
    /\ runs[1].alg = "astar" /\ runs[2].alg = "jps"
    /\ runs[1].pc = "yielded" /\ Len(runs[1].snaps) = 2
    /\ runs[2].pc = "done" /\ Len(runs[2].snaps) >= 3
    /\ runs[1].visited # runs[2].visited
    /\ runs[1].snaps = SoloAfter("astar", 2).snaps
    /\ SoloAfter("astar", 3).pc = "yielded"

HeapAlgorithms == {"best_first", "dijkstra", "astar", "jps"}

\* <<priority, counter>> of entry a comes strictly before that of entry b.
KeyLess(a, b) == a[1] < b[1] \/ (a[1] = b[1] /\ a[2] < b[2])

\* The counters of the entries in the heap differ from each other and are
\* at most the counter of the run; the first entry popped is the start with
\* counter 0; the entry last popped came before every entry still in the heap
\* by priority and counter alone.
CountersOrderHeap(r) ==
    /\ \A x \in r.open_list :
          /\ 0 <= x[2] /\ x[2] <= r.counter
          /\ \A y \in r.open_list : x # y => x[2] # y[2]
    /\ Len(r.snaps) = 1 =>
          r.entry[2] = 0 /\ r.entry[3] = start
    /\ r.pc \in {"yielded", "goal"} =>
          /\ r.entry[3] = r.current
          /\ \A x \in r.open_list : KeyLess(r.entry, x)

\* One resumption of a heap algorithm: an entry that is new in the heap, and
\* a newly popped entry, has a counter larger than every counter given
\* before.
CountersGrow(r, r2) ==
    r.pc # "init" =>
        /\ r2.counter >= r.counter
        /\ \A x \in r2.open_list \ r.open_list :
              r.counter < x[2] /\ x[2] <= r2.counter
        /\ (r2.entry # r.entry /\ r2.entry \notin r.open_list) =>
              r.counter < r2.entry[2] /\ r2.entry[2] <= r2.counter

\* One resumption of bfs that expands a cell: with the cells inserted in this
\* resumption put behind the queue, the cell expanded is the one inserted
\* first and the others keep their order.
Fifo(r, r2) ==
    (r.pc = "yielded" /\ r2.pc = "yielded") =>
        LET inserted ==
                SelectSeq(neighbours(r.current),
                          LAMBDA n : n \notin DOMAIN r.came_from)
        IN /\ r.queue \o inserted = <<r2.current>> \o r2.queue
           /\ DOMAIN r2.came_from = DOMAIN r.came_from \cup SeqSet(inserted)

\* C19: in best_first_search, dijkstra, astar and jps the start is pushed
\* with counter 0, every later push gets a larger counter that is never used
\* again, and the entry popped is the least by (priority, counter), so that
\* cells are never compared; bfs expands cells in the order of insertion.
C19_TieBreak ==
    /\ [](\A i \in DOMAIN runs :
            runs[i].alg \in HeapAlgorithms => CountersOrderHeap(runs[i]))
    /\ [][\A i \in DOMAIN runs :
            /\ runs[i].alg \in HeapAlgorithms =>
                  CountersGrow(runs[i], runs'[i])
            /\ runs[i].alg = "bfs" => Fifo(runs[i], runs'[i])]_vars

C19_Witness ==
    \E i \in DOMAIN runs :
        /\ runs[i].alg = "astar" /\ runs[i].pc = "yielded"
        /\ runs[i].counter >= 3
        /\ \E x \in runs[i].open_list :
              /\ x[1] = runs[i].entry[1]
              /\ x[2] > runs[i].entry[2]
              /\ CellLess(x[3], runs[i].entry[3])

\* The entries a run has popped whose cell was already closed: the pushes
\* (the counter counts them from 0), less the entries still in the heap, less
\* the cells finalized.
StalePops(r) ==
    (r.counter + 1) - Cardinality(r.open_list) - Cardinality(r.visited)

\* C20: a cell is finalized at most once and a stale entry yields no
\* snapshot: the n-th snapshot of a run that is not terminal has exactly n
\* cells in visited, its visited is that of the snapshot before plus its
\* current cell, and that cell was not in visited before.
C20_FinalizedOnce ==
    \A i \in DOMAIN runs :
        LET s == runs[i].snaps
        IN \A n \in 1 .. Len(s) :
              IsExpansion(s, n) =>
                 LET before == IF n = 1 THEN {} ELSE s[n - 1].visited
                 IN /\ Cardinality(s[n].visited) = n
                    /\ s[n].visited = before \cup {s[n].current}
                    /\ s[n].current \notin before

C20_Witness ==
    \E i \in DOMAIN runs :
        /\ runs[i].alg = "astar" /\ runs[i].pc # "init"
        /\ StalePops(runs[i]) > 0
        /\ Len(runs[i].snaps) >= 5

\* C21: on every grid dijkstra_gen emits the snapshots of bfs_gen, one by
\* one (the same current cell, visited set, frontier set and path), and
\* dijkstra returns the path bfs returns.
C21_DijkstraIsBfs ==
    \A i \in DOMAIN runs :
        runs[i].alg = "dijkstra" =>
            LET b == SoloAfter("bfs", Resumptions(runs[i]))
            IN /\ runs[i].snaps = b.snaps
               /\ runs[i].result = b.result
               /\ runs[i].pc = b.pc

C21_Witness ==
    \E i \in DOMAIN runs :
        /\ runs[i].alg = "dijkstra" /\ runs[i].pc = "done"
        /\ Len(runs[i].snaps) >= 6
        /\ runs[i].result = SoloAfter("bfs", Len(runs[i].snaps) + 1).result
        /\ Len(runs[i].result) >= 4
        /\ \E k \in 1 .. Len(runs[i].snaps) :
              Cardinality(runs[i].snaps[k].frontier) >= 2

\* The directions in which _identify_successors calls _jump for the cell a
\* jps run is about to expand.
JumpDirections(r) ==
    LET parent == r.came_from[r.current]
    IN IF parent # NoCell
       THEN _pruned_directions(r.current[1], r.current[2],
                               _sign(r.current[1] - parent[1]),
                               _sign(r.current[2] - parent[2]))
       ELSE Dirs8

\* The diagonal unit step from (r, c) in direction (dr, dc) squeezes between
\* two blocked cells.
BothFlanksBlocked(r, c, dr, dc) ==
    ~_walkable(r + dr, c) /\ ~_walkable(r, c + dc)

\* C22: a diagonal scan of _jump takes no unit step whose two flanking
\* orthogonal cells are both blocked: not the first step from the expanded
\* cell, and no step on the way to the jump point it returns.
C22_NoSqueeze ==
    \A i \in DOMAIN runs :
        (runs[i].alg = "jps" /\ runs[i].pc = "yielded"
            /\ runs[i].current # goal) =>
            LET r == runs[i].current[1]
                c == runs[i].current[2]
                dirs == JumpDirections(runs[i])
            IN \A n \in 1 .. Len(dirs) :
                  LET dr == dirs[n][1]
                      dc == dirs[n][2]
                      jp == _jump(r, c, dr, dc)
                  IN (dr # 0 /\ dc # 0) =>
                        /\ _walkable(r + dr, c + dc) =>
                              ~BothFlanksBlocked(r, c, dr, dc)
                        /\ jp # NoCell =>
                              \A k \in 0 .. Abs(jp[1] - r) - 1 :
                                  ~BothFlanksBlocked(r + k * dr, c + k * dc,
                                                     dr, dc)

\* The number of unit steps, diagonal ones included, between two cells of
\* one ray.
Chebyshev(a, b) == Max(Abs(a[1] - b[1]), Abs(a[2] - b[2]))

\* C23: in a jps run the recorded cost of every discovered jump point is the
\* cost of its predecessor plus the Chebyshev distance between the two, a
\* later heap entry of a cell always carries a strictly lower cost than an
\* earlier one, no heap entry is cheaper than the recorded cost of its cell,
\* and a returned path has g_score[goal] unit steps.
C23_JpsCost ==
    \A i \in DOMAIN runs :
        runs[i].alg = "jps" =>
            LET r == runs[i]
                g(e) == e[1] - jps_heuristic(e[3], goal)
            IN /\ start \in DOMAIN r.cost => r.cost[start] = 0
               /\ DOMAIN r.cost = DOMAIN r.came_from
               /\ \A jp \in DOMAIN r.came_from :
                     jp # start =>
                        r.cost[jp] = r.cost[r.came_from[jp]]
                                     + Chebyshev(r.came_from[jp], jp)
               /\ \A e \in r.open_list : g(e) >= r.cost[e[3]]
               /\ \A e1, e2 \in r.open_list :
                     (e1[3] = e2[3] /\ e1[2] < e2[2]) => g(e2) < g(e1)
               /\ r.result # NoPath => Len(r.result) - 1 = r.cost[goal]

\* A jps run returned a path of three or more unit steps after a jump
\* point was pushed a second time at a lower cost (more pushes than
\* discovered cells), one of its jumps diagonal.
C23_Witness ==
    \E i \in DOMAIN runs :
        LET r == runs[i]
        IN /\ r.alg = "jps" /\ r.pc = "done" /\ r.result # NoPath
           /\ r.cost[goal] >= 3 /\ Len(r.result) = r.cost[goal] + 1
           /\ r.counter + 1 > Cardinality(DOMAIN r.came_from)
           /\ \E jp \in DOMAIN r.came_from :
                 /\ r.came_from[jp] # NoCell
                 /\ jp[1] # r.came_from[jp][1] /\ jp[2] # r.came_from[jp][2]

\* Cell b lies on a horizontal, vertical or exact diagonal ray from cell a.
OnRay(a, b) ==
    /\ a # b
    /\ \/ a[1] = b[1]
       \/ a[2] = b[2]
       \/ Abs(a[1] - b[1]) = Abs(a[2] - b[2])

\* The position of a cell in a sequence without repeated cells, 0 if absent.
PositionIn(s, x) ==
    IF \E k \in 1 .. Len(s) : s[k] = x
    THEN CHOOSE k \in 1 .. Len(s) : s[k] = x
    ELSE 0

\* C24: every jump point a jps run records lies on one horizontal, vertical
\* or exact diagonal ray from its predecessor; a returned path contains the
\* chain of jump points from start to goal in order, keeps between two
\* consecutive jump points the one direction from the first to the second,
\* has consecutive cells at Chebyshev distance 1, repeats no cell and holds
\* only cells of the grid that are not obstacles.
C24_JpsExpansion ==
    \A i \in DOMAIN runs :
        runs[i].alg = "jps" =>
            LET r == runs[i]
                path == r.result
                chain == Reverse(WalkBack(r.came_from, goal))
                at(n) == PositionIn(path, chain[n])
            IN /\ \A jp \in DOMAIN r.came_from :
                     r.came_from[jp] # NoCell => OnRay(r.came_from[jp], jp)
               /\ path # NoPath =>
                     /\ chain[1] = start /\ chain[Len(chain)] = goal
                     /\ at(1) = 1 /\ at(Len(chain)) = Len(path)
                     /\ \A n \in 1 .. Len(chain) - 1 :
                           /\ at(n) >= 1 /\ at(n) < at(n + 1)
                           /\ \A k \in at(n) .. at(n + 1) - 1 :
                                 /\ path[k + 1][1] - path[k][1]
                                      = _sign(chain[n + 1][1] - chain[n][1])
                                 /\ path[k + 1][2] - path[k][2]
                                      = _sign(chain[n + 1][2] - chain[n][2])
                     /\ \A k \in 1 .. Len(path) - 1 :
                           Chebyshev(path[k], path[k + 1]) = 1
                     /\ \A k, l \in 1 .. Len(path) :
                           k # l => path[k] # path[l]
                     /\ \A k \in 1 .. Len(path) : Free(path[k])

\* A jps run returned a path through three or more jump points, one pair of
\* them two or more diagonal steps apart and one pair on a straight ray.
C24_Witness ==
    \E i \in DOMAIN runs :
        LET r == runs[i]
            chain == Reverse(WalkBack(r.came_from, goal))
        IN /\ r.alg = "jps" /\ r.pc = "done" /\ r.result # NoPath
           /\ Len(chain) >= 3 /\ Len(r.result) > Len(chain)
           /\ \E n \in 1 .. Len(chain) - 1 :
                 /\ Abs(chain[n][1] - chain[n + 1][1]) >= 2
                 /\ Abs(chain[n][2] - chain[n + 1][2]) >= 2
           /\ \E n \in 1 .. Len(chain) - 1 :
                 /\ (chain[n][1] = chain[n + 1][1]
                       \/ chain[n][2] = chain[n + 1][2])

\* Breadth-first layers from the start: every cell that can be reached
\* through 4-connected cells that are not obstacles, with the number of
\* steps of a shortest route to it.
RECURSIVE DistanceLayers4(_, _, _)
DistanceLayers4(front, dist, k) ==
    Bind(LAMBDA nxt :
            IF nxt = {} THEN dist
            ELSE DistanceLayers4(nxt,
                                 [cell \in DOMAIN dist \cup nxt |->
                                     IF cell \in nxt THEN k + 1
                                     ELSE dist[cell]],
                                 k + 1),
         UNION {Adj4(a) : a \in front} \ DOMAIN dist)

Distances4 == DistanceLayers4({start}, [cell \in {start} |-> 0], 0)

DistanceIn(dist, cell) ==
    IF cell \in DOMAIN dist THEN dist[cell] ELSE Unreachable

\* The cells a run finalized, in the order of their expansion snapshots.
Finalized(r) ==
    LET expansions == SelectSeq(r.snaps, LAMBDA st : st.current # NoCell
                                                     /\ st.path = NoPath)
    IN [k \in 1 .. Len(expansions) |-> expansions[k].current]

\* C25: in every state of a dijkstra or astar run the recorded cost of each
\* closed cell is its shortest 4-connected distance from the start (so it
\* is final from the moment the cell is closed); the priority dijkstra
\* popped for the cell it expands is dist of that cell; the f-values of the
\* cells astar finalized one after another never decrease.
C25_ClosedIsFinal ==
    \A i \in DOMAIN runs :
        runs[i].alg \in {"dijkstra", "astar"} =>
            LET r == runs[i]
                done == Finalized(r)
                f(cell) == r.cost[cell] + _heuristic(cell, goal)
            IN /\ \E dist \in {Distances4} :
                     \A cell \in r.visited :
                         r.cost[cell] = DistanceIn(dist, cell)
               /\ (r.alg = "dijkstra" /\ r.pc = "yielded") =>
                     r.d = r.cost[r.current]
               /\ r.alg = "astar" =>
                     \A k \in 1 .. Len(done) - 1 :
                         f(done[k]) <= f(done[k + 1])

\* An astar run closed five or more cells, one of them after a cheaper
\* route to it was found while it waited in the heap (more pushes than
\* discovered cells), and the f-value rose on the way.
C25_Witness ==
    \E i \in DOMAIN runs :
        LET r == runs[i]
            done == Finalized(r)
        IN /\ r.alg = "astar" /\ r.pc # "init"
           /\ Cardinality(r.visited) >= 5
           /\ r.counter + 1 > Cardinality(DOMAIN r.came_from)
           /\ \E cell \in r.visited : r.cost[cell] >= 3
           /\ \E k \in 1 .. Len(done) - 1 :
                 r.cost[done[k]] + _heuristic(done[k], goal)
                    < r.cost[done[k + 1]] + _heuristic(done[k + 1], goal)

\* The cells met following came_from from a cell, at most fuel of them: the
\* walk ends at a cell without predecessor, at a missing key or out of fuel.
RECURSIVE BoundedWalk(_, _, _)
BoundedWalk(came_from, node, fuel) ==
    IF fuel = 0 \/ node \notin DOMAIN came_from THEN <<>>
    ELSE <<node>> \o BoundedWalk(came_from, came_from[node], fuel - 1)

NoRepeat(s) == \A k, l \in 1 .. Len(s) : k # l => s[k] # s[l]

\* came_from of one run is a tree rooted at the start, its inner nodes
\* finalized.
IsTree(r) ==
    /\ start \in DOMAIN r.came_from
    /\ r.came_from[start] = NoCell
    /\ \A key \in DOMAIN r.came_from :
          key # start =>
             /\ r.came_from[key] \in r.visited
             /\ r.came_from[key] \in DOMAIN r.came_from
    /\ \A key \in DOMAIN r.came_from :
          LET walk == BoundedWalk(r.came_from, key,
                                  Cardinality(DOMAIN r.came_from))
          IN /\ Len(walk) >= 1
             /\ walk[Len(walk)] = start
             /\ NoRepeat(walk)
    /\ r.result # NoPath => NoRepeat(r.result)

\* One resumption writes only entries whose value is a cell finalized
\* before the resumption, and leaves the entry of the start alone.
WritesFinalized(r, after) ==
    /\ start \in DOMAIN r.came_from =>
          start \in DOMAIN after.came_from
             /\ after.came_from[start] = NoCell
    /\ \A key \in DOMAIN after.came_from :
          (key # start /\ (key \notin DOMAIN r.came_from
                             \/ r.came_from[key] # after.came_from[key])) =>
             after.came_from[key] \in r.visited

\* C26: in every state of every algorithm came_from is a tree rooted at the
\* start: the start maps to None, every other key maps to a finalized cell,
\* following came_from from any key reaches the start without meeting a
\* cell twice, and a returned path repeats no cell; every resumption writes
\* only entries whose value was finalized before, never the start's.
C26_CameFromTree ==
    /\ [](\A i \in DOMAIN runs : runs[i].pc # "init" => IsTree(runs[i]))
    /\ [][\A i \in DOMAIN runs : WritesFinalized(runs[i], runs'[i])]_vars

\* A finished run returned a path of four or more cells, and its came_from
\* holds a cell off that path whose walk to the start takes three or more
\* cells.
C26_Witness ==
    \E i \in DOMAIN runs :
        LET r == runs[i]
        IN /\ r.pc = "done" /\ Len(r.result) >= 4
           /\ \E key \in DOMAIN r.came_from :
                 /\ key \notin SeqSet(r.result)
                 /\ Len(BoundedWalk(r.came_from, key,
                                     Cardinality(DOMAIN r.came_from))) >= 3
                 /\ IsTree(r)

\* C27: in every snapshot of every algorithm but the failure snapshot the
\* current cell is in visited, visited and frontier are disjoint and hold
\* only cells of the grid that are not obstacles; the snapshot just emitted
\* has as visited the finalized cells and as frontier the cells with a
\* came_from entry that are not finalized; the first snapshot is
\* current = start, visited = {start}, frontier = {}.
C27_SnapshotShape ==
    \A i \in DOMAIN runs :
        LET r == runs[i]
            s == r.snaps
        IN /\ \A k \in 1 .. Len(s) :
                 ~IsFailureSnapshot(s[k]) =>
                    /\ s[k].current \in s[k].visited
                    /\ s[k].visited \cap s[k].frontier = {}
                    /\ \A cell \in s[k].visited \cup s[k].frontier :
                          Free(cell)
           /\ r.pc \in {"yielded", "goal"} =>
                 /\ Last(s).current = r.current
                 /\ Last(s).visited = r.visited
                 /\ Last(s).frontier = DOMAIN r.came_from \ r.visited
           /\ Len(s) >= 1 =>
                 s[1] = SearchState(start, {start}, {}, NoPath)

\* A run emitted a path snapshot after five or more expansions; the
\* frontier of the path snapshot holds two or more cells and an earlier
\* frontier held a cell that was finalized later.
C27_Witness ==
    \E i \in DOMAIN runs :
        LET r == runs[i]
            s == r.snaps
        IN /\ r.pc = "goal" /\ Len(s) >= 6
           /\ Last(s).path # NoPath
           /\ Cardinality(Last(s).frontier) >= 2
           /\ Last(s).frontier = DOMAIN r.came_from \ r.visited
           /\ \E k \in 1 .. Len(s) - 1 :
                 s[k].frontier \cap Last(s).visited # {}

\* A generator resumed alone until it is exhausted.
RECURSIVE Complete(_)
Complete(r) ==
    IF r.pc = "done" THEN r
    ELSE Bind(LAMBDA x : Complete(x),
              CHOOSE x \in _get_algorithm_gen(r) : TRUE)

FourConnected == {"bfs", "dfs", "best_first", "dijkstra", "astar"}

\* C28: where the goal can be reached from the start through 4-connected
\* cells that are not obstacles, no run of bfs, dfs, best_first_search,
\* dijkstra or astar emits the failure snapshot, and an exhausted run has
\* returned a path; an exhausted run of dfs or best_first_search has
\* returned None only where bfs returns None.
C28_Complete4 ==
    \A i \in DOMAIN runs :
        LET r == runs[i]
        IN r.alg \in FourConnected =>
              /\ ShortestLen4 # Unreachable =>
                    /\ \A k \in 1 .. Len(r.snaps) :
                          ~IsFailureSnapshot(r.snaps[k])
                    /\ r.pc = "done" =>
                          r.result # NoPath /\ Last(r.result) = goal
              /\ (r.alg \in {"dfs", "best_first"} /\ r.pc = "done"
                     /\ r.result = NoPath) =>
                    Complete(NewRun("bfs")).result = NoPath

\* A best_first_search run returned a path after it had to back away from
\* the goal: it expanded a cell farther from the goal than the cell
\* expanded before, on a grid with obstacles.
C28_Witness ==
    \E i \in DOMAIN runs :
        LET r == runs[i]
        IN /\ r.alg = "best_first" /\ r.pc = "done"
           /\ ShortestLen4 # Unreachable /\ r.result # NoPath
           /\ \E cell \in Cells : grid[cell] = OBSTACLE
           /\ \E k \in 1 .. Len(r.snaps) - 2 :
                 _heuristic(r.snaps[k].current, goal)
                    < _heuristic(r.snaps[k + 1].current, goal)

\* The directions that continue a move in direction d without a turn
\* forced by an obstacle.
NaturalAfter(d) ==
    IF d[1] # 0 /\ d[2] # 0
    THEN {d, <<d[1], 0>>, <<0, d[2]>>}
    ELSE {d}

Direction(a, b) == <<_sign(b[1] - a[1]), _sign(b[2] - a[2])>>

\* C29: where the goal can be reached from the start through
\* Grid.neighbours8 moves, no jps run emits the failure snapshot and an
\* exhausted jps run has returned a path that ends at the goal.
C29_JpsComplete8 ==
    \A i \in DOMAIN runs :
        LET r == runs[i]
        IN (r.alg = "jps" /\ ShortestLen8 # Unreachable) =>
              /\ \A k \in 1 .. Len(r.snaps) :
                    ~IsFailureSnapshot(r.snaps[k])
              /\ r.pc = "done" =>
                    r.result # NoPath /\ Last(r.result) = goal

\* A jps run returned a path whose chain of jump points takes a forced
\* turn: a jump in a direction that is not a natural continuation of the
\* jump before it.
C29_Witness ==
    \E i \in DOMAIN runs :
        LET r == runs[i]
            chain == Reverse(WalkBack(r.came_from, goal))
        IN /\ r.alg = "jps" /\ r.pc = "done"
           /\ ShortestLen8 # Unreachable /\ r.result # NoPath
           /\ \E n \in 2 .. Len(chain) - 1 :
                 Direction(chain[n], chain[n + 1])
                    \notin NaturalAfter(Direction(chain[n - 1], chain[n]))

\* The cells that can be reached from the start through 4-connected cells
\* that are not obstacles.
Reachable4 == DOMAIN Distances4

\* C30: when a run of bfs, dfs, best_first_search, dijkstra or astar has
\* emitted the failure snapshot, the visited set of that snapshot is the set
\* of cells reachable from the start through 4-connected cells that are not
\* obstacles, the goal is not in it, and the snapshots before it finalized
\* each of these cells exactly once.
C30_FailureVisitsAll ==
    \A i \in DOMAIN runs :
        LET r == runs[i]
            s == r.snaps
        IN (r.alg \in FourConnected /\ s # <<>>
              /\ IsFailureSnapshot(Last(s))) =>
              \E reach \in {Reachable4} :
                 /\ Last(s).visited = reach
                 /\ goal \notin Last(s).visited
                 /\ Len(s) - 1 = Cardinality(reach)
                 /\ {s[k].current : k \in 1 .. Len(s) - 1} = reach

\* An astar run failed after it finalized four or more cells, one of them
\* farther from the goal than the start, while a free cell beyond the
\* obstacles stayed unvisited.
C30_Witness ==
    \E i \in DOMAIN runs :
        LET r == runs[i]
            s == r.snaps
        IN /\ r.alg = "astar" /\ r.pc = "done"
           /\ IsFailureSnapshot(Last(s))
           /\ \E reach \in {Reachable4} :
                 /\ Last(s).visited = reach
                 /\ Cardinality(reach) >= 4
                 /\ \E cell \in reach :
                       _heuristic(cell, goal) > _heuristic(start, goal)
                 /\ \E cell \in Cells :
                       Free(cell) /\ cell # goal /\ cell \notin reach

====
